---- MODULE Spec2Model ----
(***************************************************************************)
(* Model of asterisklint/file.py: the FileReader line pipeline             *)
(*   BinFileReader -> EncodingReader -> NoCtrlReader -> FileformatReader   *)
(*   -> AsteriskCommentReader.                                             *)
(* Bytes and characters are integers (byte values / code points); a line   *)
(* is a sequence of them.  A Where is [filename, lineno, line].            *)
(* A diagnostic is [code, where].                                          *)
(***************************************************************************)
EXTENDS Integers, Sequences, FiniteSets, TLC

VARIABLES
    files,       \* BinFileReader._files: stack of handle ids
    generators,  \* BinFileReader._generators: stack of enumerate(fp) states
    filenames,   \* BinFileReader._filenames: stack of names
    handles,     \* every handle the opener returned: [name, binary, closed]
    fileinfo,    \* FileformatReader.__iter__ local: stack of frames
    is_dos,      \* FileformatReader.__iter__ local is_dos ("None"/"True"/"False")
    pc,          \* position of the consumer / of the line in flight
    op,          \* the call made last: "none", "include", "next" or "abandon"
    err,         \* the exception that call raised to its caller ("None" if none)
    diags,       \* the diagnostics constructed so far, in order
    pulled,      \* what BinFileReader.__iter__ yielded so far, with the
                 \* diagnostics constructed during that pull and the record
                 \* the pipeline yielded for it: [h, where, emitted, rec]
    finalized,   \* the frames _pop_fileinfo popped so far, in order, each with
                 \* its diagnostics and the number of the pull that popped it
    cur          \* the record in flight / yielded last: [where, data, comment]

vars == <<files, generators, filenames, handles, fileinfo, is_dos, pc, op, err,
          diags, pulled, finalized, cur>>

----------------------------------------------------------------------------
(* Characters the code names.                                              *)
TAB == 9
LF == 10
CR == 13
SPACE == 32
SEMI == 59
BACKSLASH == 92

(* Bounds of the model.                                                    *)
MaxOpens == 2      \* handles the opener returns in one run
MaxPulls == 4      \* lines yielded in one run, over all sources
MaxBytes == 3      \* length of the byte lines fed to the decoder
MaxText == 4       \* length of the text lines fed to the splitter

Names == {"a", "b"}

----------------------------------------------------------------------------
(* Sequence helpers (Python slicing and str methods).                      *)

\* data[lo:hi] with 0-based, half-open Python indices, 0 <= lo
Slice(s, lo, hi) ==
    IF hi <= lo THEN <<>> ELSE SubSeq(s, lo + 1, IF hi > Len(s) THEN Len(s) ELSE hi)

\* data.endswith('\n')
EndsWithLF(s) ==
    Len(s) >= 1 /\ s[Len(s)] = LF

\* data.endswith('\r\n')
EndsWithCRLF(s) ==
    Len(s) >= 2 /\ s[Len(s) - 1] = CR /\ s[Len(s)] = LF

IsWsh(c) ==
    c \in {SPACE, TAB}

\* the index i reached by: while i > 0 and data[i - 1] in ' \t': i -= 1
RECURSIVE WshStart(_, _)
WshStart(s, i) ==
    IF i > 0 /\ IsWsh(s[i]) THEN WshStart(s, i - 1) ELSE i

\* data.rstrip(' \t')
RStrip(s) ==
    Slice(s, 0, WshStart(s, Len(s)))

\* data.index(c): 0-based index of the first c, or -1 for ValueError
RECURSIVE IndexFrom(_, _, _)
IndexFrom(s, c, k) ==
    IF k > Len(s) THEN -1
    ELSE IF s[k] = c THEN k - 1
    ELSE IndexFrom(s, c, k + 1)

Index(s, c) ==
    IndexFrom(s, c, 1)

\* c in data
Contains(s, c) ==
    \E k \in 1..Len(s) : s[k] = c

\* set(data)
CharSet(s) ==
    {s[k] : k \in 1..Len(s)}

\* all sequences over S of length 0..n
RECURSIVE SeqsUpTo(_, _)
SeqsUpTo(S, n) ==
    IF n = 0 THEN {<<>>}
    ELSE LET shorter == SeqsUpTo(S, n - 1)
         IN  shorter \cup {Append(s, c) : s \in {t \in shorter : Len(t) = n - 1}, c \in S}

Diag(code, where) ==
    [code |-> code, where |-> where]

----------------------------------------------------------------------------
(* bytes.decode('utf-8'), strict: the standard decoder of well-formed      *)
(* UTF-8 (no overlong forms, no surrogates, nothing above U+10FFFF).       *)

\* number of bytes of the sequence a lead byte starts, 0 for no lead byte
Utf8Len(b0) ==
    IF b0 < 128 THEN 1
    ELSE IF b0 >= 194 /\ b0 <= 223 THEN 2
    ELSE IF b0 >= 224 /\ b0 <= 239 THEN 3
    ELSE IF b0 >= 240 /\ b0 <= 244 THEN 4
    ELSE 0

\* the range the second byte must lie in
Utf8Second(b0) ==
    IF b0 = 224 THEN 160..191
    ELSE IF b0 = 237 THEN 128..159
    ELSE IF b0 = 240 THEN 144..191
    ELSE IF b0 = 244 THEN 128..143
    ELSE 128..191

Utf8Tail(b, k, n) ==
    /\ n >= 2 => b[k + 1] \in Utf8Second(b[k])
    /\ \A j \in 2..(n - 1) : b[k + j] \in 128..191

Utf8Point(b, k, n) ==
    IF n = 1 THEN b[k]
    ELSE IF n = 2 THEN (b[k] - 192) * 64 + (b[k + 1] - 128)
    ELSE IF n = 3 THEN (b[k] - 224) * 4096 + (b[k + 1] - 128) * 64 + (b[k + 2] - 128)
    ELSE (b[k] - 240) * 262144 + (b[k + 1] - 128) * 4096
         + (b[k + 2] - 128) * 64 + (b[k + 3] - 128)

RECURSIVE Utf8From(_, _)
Utf8From(b, k) ==
    IF k > Len(b) THEN [ok |-> TRUE, text |-> <<>>]
    ELSE LET n == Utf8Len(b[k])
         IN  IF n = 0 \/ k + n - 1 > Len(b) THEN [ok |-> FALSE, text |-> <<>>]
             ELSE IF ~Utf8Tail(b, k, n) THEN [ok |-> FALSE, text |-> <<>>]
             ELSE LET rest == Utf8From(b, k + n)
                  IN  [ok |-> rest.ok,
                       text |-> IF rest.ok THEN <<Utf8Point(b, k, n)>> \o rest.text
                                ELSE <<>>]

\* data.decode('utf-8'): ok = FALSE stands for UnicodeDecodeError
Utf8Decode(b) ==
    Utf8From(b, 1)

(* bytes.decode('cp1252'): Python's charmap codec.  0x00-0x7F and          *)
(* 0xA0-0xFF map to the same code point; 0x80-0x9F map by the table below, *)
(* in which 0x81, 0x8D, 0x8F, 0x90 and 0x9D are unassigned (-1): the codec *)
(* raises UnicodeDecodeError on them.                                      *)
Cp1252High ==
    << 8364,   -1, 8218,  402, 8222, 8230, 8224, 8225,
        710, 8240,  352, 8249,  338,   -1,  381,   -1,
         -1, 8216, 8217, 8220, 8221, 8226, 8211, 8212,
        732, 8482,  353, 8250,  339,   -1,  382,  376 >>

Cp1252Char(b0) ==
    IF b0 >= 128 /\ b0 <= 159 THEN Cp1252High[b0 - 127] ELSE b0

\* data.decode('cp1252'): ok = FALSE stands for UnicodeDecodeError
Cp1252Decode(b) ==
    [ok   |-> \A k \in 1..Len(b) : Cp1252Char(b[k]) # -1,
     text |-> [k \in 1..Len(b) |-> Cp1252Char(b[k])]]

----------------------------------------------------------------------------
\* EncodingReader that tries the fallback codepage first
EncodingReader_fallback_first(where, data) ==
    LET u == Utf8Decode(data)
        f == Cp1252Decode(data)
    IN  IF f.ok
        THEN [raised |-> FALSE, diags |-> <<>>, where |-> where, data |-> f.text]
        ELSE [raised |-> ~u.ok,
              diags  |-> <<Diag("E_FILE_UTF8_BAD", where)>>,
              where  |-> where,
              data   |-> IF u.ok THEN u.text ELSE data]

(* EncodingReader.__iter__, the body of its loop for one (where, data).    *)
(* raised = TRUE: the fallback decode raised and the exception leaves the  *)
(* generator; the diagnostic was constructed before that.                  *)
EncodingReader(where, data) ==
    LET u == Utf8Decode(data)
        f == Cp1252Decode(data)
    IN  IF u.ok
        THEN [raised |-> FALSE, diags |-> <<>>, where |-> where, data |-> u.text]
        ELSE [raised |-> ~f.ok,
              diags  |-> <<Diag("E_FILE_UTF8_BAD", where)>>,
              where  |-> where,
              data   |-> IF f.ok THEN f.text ELSE data]

----------------------------------------------------------------------------
(* NoCtrlReader.illegal and the body of NoCtrlReader.__iter__'s loop.      *)
illegal ==
    (0..8) \cup {11, 12} \cup (14..31)

\* NoCtrlReader that warns once for each illegal character of the line
NoCtrlReader_per_char(where, data) ==
    LET isIllegal(c) == c \in illegal
        found == SelectSeq(data, isIllegal)
    IN  [diags |-> [k \in 1..Len(found) |-> Diag("W_FILE_CTRL_CHAR", where)],
         where |-> where,
         data  |-> data]

NoCtrlReader(where, data) ==
    LET charset == CharSet(data)
        union   == charset \cap illegal
    IN  [diags |-> IF union # {} THEN <<Diag("W_FILE_CTRL_CHAR", where)>> ELSE <<>>,
         where |-> where,
         data  |-> data]

----------------------------------------------------------------------------
(* FileformatReader.  A frame of fileinfo is the list                      *)
(* [filename, is_dos, latest_has_lf, last_where]; Python's None, True and  *)
(* False are the strings "None", "True" and "False".                       *)
Py(b) ==
    IF b THEN "True" ELSE "False"

NoName == "None"

Frame(fn, isdos, latest_has_lf, last_where) ==
    [fn |-> fn, is_dos |-> isdos, latest_has_lf |-> latest_has_lf, where |-> last_where]

\* _pop_fileinfo with the test of latest_has_lf inverted for DOS frames
RECURSIVE _pop_fileinfo_inverted(_, _)
_pop_fileinfo_inverted(fi, stop_at) ==
    IF fi # <<>> /\ fi[Len(fi)].fn # stop_at
    THEN LET top  == fi[Len(fi)]
             d    == IF top.is_dos = "True" /\ top.latest_has_lf # "True"
                     THEN <<Diag("W_FILE_DOS_EOFCRLF", top.where)>>
                     ELSE IF top.is_dos # "True" /\ top.latest_has_lf # "True"
                     THEN <<Diag("W_FILE_UNIX_NOLF", top.where)>>
                     ELSE <<>>
             rest == _pop_fileinfo_inverted(SubSeq(fi, 1, Len(fi) - 1), stop_at)
         IN  [fileinfo |-> rest.fileinfo, diags |-> d \o rest.diags,
              popped |-> <<[frame |-> top, diags |-> d]>> \o rest.popped]
    ELSE [fileinfo |-> fi, diags |-> <<>>, popped |-> <<>>]

\* FileformatReader._pop_fileinfo: the frames left and the diagnostics
\* constructed, in order.  (Its assert holds: a frame is classified in the
\* iteration that pushes it.)
RECURSIVE _pop_fileinfo(_, _)
_pop_fileinfo(fi, stop_at) ==
    IF fi # <<>> /\ fi[Len(fi)].fn # stop_at
    THEN LET top  == fi[Len(fi)]
             d    == IF top.is_dos = "True" /\ top.latest_has_lf = "True"
                     THEN <<Diag("W_FILE_DOS_EOFCRLF", top.where)>>
                     ELSE IF top.is_dos # "True" /\ top.latest_has_lf # "True"
                     THEN <<Diag("W_FILE_UNIX_NOLF", top.where)>>
                     ELSE <<>>
             rest == _pop_fileinfo(SubSeq(fi, 1, Len(fi) - 1), stop_at)
         IN  [fileinfo |-> rest.fileinfo, diags |-> d \o rest.diags,
              popped |-> <<[frame |-> top, diags |-> d]>> \o rest.popped]
    ELSE [fileinfo |-> fi, diags |-> <<>>, popped |-> <<>>]

\* FileformatReader that does not reload is_dos when it returns from an
\* include: the child's convention leaks into the parent
FileformatReader_leaky(fi, isdos, where, data) ==
    LET changed  == fi = <<>> \/ fi[Len(fi)].fn # where.filename
        inStack  == \E k \in 1..Len(fi) : fi[k].fn = where.filename
        popped   == _pop_fileinfo(fi, where.filename)
        fi1      == IF ~changed THEN fi
                    ELSE IF inStack THEN popped.fileinfo
                    ELSE Append(fi, Frame(where.filename, "None", "None", where))
        d1       == IF changed /\ inStack THEN popped.diags ELSE <<>>
        top      == fi1[Len(fi1)]
        \* filename, is_dos, latest_has_lf, where = fileinfo[-1]
        isdos1   == IF changed /\ ~inStack THEN top.is_dos ELSE isdos
        where1   == IF changed THEN top.where ELSE where
        has_crlf == EndsWithCRLF(data)
        has_lf   == EndsWithLF(data)
        isdos2   == IF isdos1 = "None" THEN Py(has_crlf \/ ~has_lf) ELSE isdos1
        fi2      == [fi1 EXCEPT ![Len(fi1)] =
                        Frame(top.fn,
                              IF isdos1 = "None" THEN isdos2 ELSE top.is_dos,
                              Py(has_lf), where1)]
        d2       == IF isdos2 = "True"
                    THEN IF has_lf /\ ~has_crlf
                         THEN <<Diag("W_FILE_DOS_BARELF", where1)>> ELSE <<>>
                    ELSE IF has_crlf
                         THEN <<Diag("W_FILE_UNIX_CRLF", where1)>> ELSE <<>>
        data1    == IF has_crlf THEN Slice(data, 0, Len(data) - 2)
                    ELSE IF has_lf THEN Slice(data, 0, Len(data) - 1)
                    ELSE data
    IN  [fileinfo |-> fi2, is_dos |-> isdos2, diags |-> d1 \o d2,
         popped |-> IF changed /\ inStack THEN popped.popped ELSE <<>>,
         where |-> where1, data |-> data1]

\* FileformatReader.__iter__, the body of its loop for one (where, data),
\* given the locals fileinfo and is_dos left by the previous iteration.
FileformatReader(fi, isdos, where, data) ==
    LET changed  == fi = <<>> \/ fi[Len(fi)].fn # where.filename
        inStack  == \E k \in 1..Len(fi) : fi[k].fn = where.filename
        popped   == _pop_fileinfo(fi, where.filename)
        fi1      == IF ~changed THEN fi
                    ELSE IF inStack THEN popped.fileinfo
                    ELSE Append(fi, Frame(where.filename, "None", "None", where))
        d1       == IF changed /\ inStack THEN popped.diags ELSE <<>>
        top      == fi1[Len(fi1)]
        \* filename, is_dos, latest_has_lf, where = fileinfo[-1]
        isdos1   == IF changed THEN top.is_dos ELSE isdos
        where1   == IF changed THEN top.where ELSE where
        has_crlf == EndsWithCRLF(data)
        has_lf   == EndsWithLF(data)
        isdos2   == IF isdos1 = "None" THEN Py(has_crlf \/ ~has_lf) ELSE isdos1
        fi2      == [fi1 EXCEPT ![Len(fi1)] =
                        Frame(top.fn,
                              IF isdos1 = "None" THEN isdos2 ELSE top.is_dos,
                              Py(has_lf), where1)]
        d2       == IF isdos2 = "True"
                    THEN IF has_lf /\ ~has_crlf
                         THEN <<Diag("W_FILE_DOS_BARELF", where1)>> ELSE <<>>
                    ELSE IF has_crlf
                         THEN <<Diag("W_FILE_UNIX_CRLF", where1)>> ELSE <<>>
        data1    == IF has_crlf THEN Slice(data, 0, Len(data) - 2)
                    ELSE IF has_lf THEN Slice(data, 0, Len(data) - 1)
                    ELSE data
    IN  [fileinfo |-> fi2, is_dos |-> isdos2, diags |-> d1 \o d2,
         popped |-> IF changed /\ inStack THEN popped.popped ELSE <<>>,
         where |-> where1, data |-> data1]

----------------------------------------------------------------------------
(* AsteriskCommentReader.                                                  *)

\* AsteriskCommentReader.simple_comment_split
\* the split, dropping the ';' from the comment
simple_comment_split_drops_semi(data) ==
    LET i == Index(data, SEMI)
    IN  IF i = -1 THEN [data |-> data, comment |-> <<>>]
        ELSE LET j == WshStart(data, i)
             IN  [data |-> Slice(data, 0, j), comment |-> Slice(data, i + 1, Len(data))]

\* the split, leaving the spaces and tabs before the ';' in the code
simple_comment_split_keeps_wsh(data) ==
    LET i == Index(data, SEMI)
    IN  IF i = -1 THEN [data |-> data, comment |-> <<>>]
        ELSE [data |-> Slice(data, 0, i), comment |-> Slice(data, i, Len(data))]

simple_comment_split(data) ==
    LET i == Index(data, SEMI)
    IN  IF i = -1 THEN [data |-> data, comment |-> <<>>]
        ELSE LET j == WshStart(data, i)
             IN  [data |-> Slice(data, 0, j), comment |-> Slice(data, j, Len(data))]

\* the loop, leaving the backslash of an escaped ';' in place
RECURSIVE EscapeLoop_keeps_backslash(_)
EscapeLoop_keeps_backslash(data) ==
    LET i == Index(data, SEMI)
    IN  IF i = -1 THEN [data |-> data, comment |-> <<>>]
        ELSE IF i # 0 /\ data[i] = BACKSLASH
        THEN LET rest == EscapeLoop_keeps_backslash(Slice(data, i + 1, Len(data)))
             IN  [data    |-> Slice(data, 0, i) \o <<SEMI>> \o rest.data,
                  comment |-> rest.comment]
        ELSE [data |-> Slice(data, 0, i), comment |-> Slice(data, i, Len(data))]

\* the 'while True' loop of AsteriskCommentReader.__iter__:
\* ''.join(parts) and comment
RECURSIVE EscapeLoop(_)
EscapeLoop(data) ==
    LET i == Index(data, SEMI)
    IN  IF i = -1 THEN [data |-> data, comment |-> <<>>]
        ELSE IF i # 0 /\ data[i] = BACKSLASH
        THEN LET rest == EscapeLoop(Slice(data, i + 1, Len(data)))
             IN  [data    |-> Slice(data, 0, i - 1) \o <<SEMI>> \o rest.data,
                  comment |-> rest.comment]
        ELSE [data |-> Slice(data, 0, i), comment |-> Slice(data, i, Len(data))]

\* the lookback path, dropping the spaces and tabs that end the code
lookback_split_drops_wsh(data) ==
    LET esc == EscapeLoop(data)
        i   == WshStart(esc.data, Len(esc.data))
    IN  [data |-> Slice(esc.data, 0, i), comment |-> esc.comment]

\* the lookback path of AsteriskCommentReader.__iter__, taken when the
\* line holds a backslash: the loop, then the spaces and tabs that end
\* the code are moved to the front of the comment
lookback_split(data) ==
    LET esc == EscapeLoop(data)
        i   == WshStart(esc.data, Len(esc.data))
    IN  [data    |-> Slice(esc.data, 0, i),
         comment |-> Slice(esc.data, i, Len(esc.data)) \o esc.comment]

\* the reader, warning once more when it moves whitespace to the comment
AsteriskCommentReader_warns_twice(where, data) ==
    LET wsh   == data # <<>> /\ IsWsh(data[Len(data)])
        data1 == IF wsh THEN RStrip(data) ELSE data
        d     == IF wsh THEN <<Diag("W_WSH_EOL", where)>> ELSE <<>>
        split == IF ~Contains(data1, BACKSLASH) THEN simple_comment_split(data1)
                 ELSE lookback_split(data1)
        d2    == IF split.comment # <<>> /\ IsWsh(split.comment[1])
                 THEN <<Diag("W_WSH_EOL", where)>> ELSE <<>>
    IN  [diags |-> d \o d2, where |-> where,
         data |-> split.data, comment |-> split.comment]

\* the reader, leaving the spaces and tabs at the end of the line
AsteriskCommentReader_keeps_eol_wsh(where, data) ==
    LET wsh   == data # <<>> /\ IsWsh(data[Len(data)])
        d     == IF wsh THEN <<Diag("W_WSH_EOL", where)>> ELSE <<>>
        split == IF ~Contains(data, BACKSLASH) THEN simple_comment_split(data)
                 ELSE lookback_split(data)
    IN  [diags |-> d, where |-> where,
         data |-> split.data, comment |-> split.comment]

\* AsteriskCommentReader.__iter__, the body of its loop for one (where, data)
AsteriskCommentReader(where, data) ==
    LET wsh   == data # <<>> /\ IsWsh(data[Len(data)])
        data1 == IF wsh THEN RStrip(data) ELSE data
        d     == IF wsh THEN <<Diag("W_WSH_EOL", where)>> ELSE <<>>
        split == IF ~Contains(data1, BACKSLASH) THEN simple_comment_split(data1)
                 ELSE lookback_split(data1)
    IN  [diags |-> d, where |-> where,
         data |-> split.data, comment |-> split.comment]

----------------------------------------------------------------------------
(* The pipeline as a state machine: one FileReader, one iteration over it. *)
(* pc = "idle": the consumer holds control (before the first pull or       *)
(* between two pulls); "done": the sequence ended; "raised": an exception  *)
(* left the generators; "abandoned": the consumer stopped pulling.         *)

\* the lines the sources of the pipeline hold: 'a\r\n', 'a\n', 'a' and
\* the undecodable '\x81\n'
PipeLines ==
    {<<97, CR, LF>>, <<97, LF>>, <<97>>, <<129, LF>>}

Where(filename, lineno, line) ==
    [filename |-> filename, lineno |-> lineno, line |-> line]

NoRecord ==
    [where |-> Where(NoName, 0, <<>>), data |-> <<>>, comment |-> <<>>]

Init ==
    /\ files = <<>>
    /\ generators = <<>>
    /\ filenames = <<>>
    /\ handles = <<>>
    /\ fileinfo = <<>>
    /\ is_dos = "None"
    /\ pc = "idle"
    /\ op = "none"
    /\ err = "None"
    /\ diags = <<>>
    /\ pulled = <<>>
    /\ finalized = <<>>
    /\ cur = NoRecord

\* include that pushes the name before it calls the opener
include_pushes_name(filename) ==
    /\ pc = "idle"
    /\ op' = "include"
    /\ \E outcome \in {"raises", "binary", "text"} :
          /\ outcome # "raises" => Len(handles) < MaxOpens
          /\ IF outcome = "raises"
             THEN /\ err' = "IOError"
                  /\ filenames' = Append(filenames, filename)
                  /\ UNCHANGED <<files, generators, handles>>
             ELSE IF outcome = "text"
             THEN /\ err' = "AssertionError"
                  /\ handles' = Append(handles, [name |-> filename, binary |-> FALSE,
                                                  closed |-> 0])
                  /\ UNCHANGED <<files, generators, filenames>>
             ELSE /\ err' = "None"
                  /\ handles' = Append(handles, [name |-> filename, binary |-> TRUE,
                                                  closed |-> 0])
                  /\ files' = Append(files, Len(handles) + 1)
                  /\ generators' = Append(generators, [next |-> 0, eof |-> FALSE])
                  /\ filenames' = Append(filenames, filename)
    /\ UNCHANGED <<fileinfo, is_dos, pc, diags, pulled, finalized, cur>>

\* BinFileReader.include(filename); the opener raises, returns a file
\* opened in binary mode, or returns a file opened in text mode
include(filename) ==
    /\ pc = "idle"
    /\ op' = "include"
    /\ \E outcome \in {"raises", "binary", "text"} :
          /\ outcome # "raises" => Len(handles) < MaxOpens
          /\ IF outcome = "raises"
             THEN /\ err' = "IOError"
                  /\ UNCHANGED <<files, generators, filenames, handles>>
             ELSE IF outcome = "text"
             THEN /\ err' = "AssertionError"
                  /\ handles' = Append(handles, [name |-> filename, binary |-> FALSE,
                                                  closed |-> 0])
                  /\ UNCHANGED <<files, generators, filenames>>
             ELSE /\ err' = "None"
                  /\ handles' = Append(handles, [name |-> filename, binary |-> TRUE,
                                                  closed |-> 0])
                  /\ files' = Append(files, Len(handles) + 1)
                  /\ generators' = Append(generators, [next |-> 0, eof |-> FALSE])
                  /\ filenames' = Append(filenames, filename)
    /\ UNCHANGED <<fileinfo, is_dos, pc, diags, pulled, finalized, cur>>

\* self._files[-1].close() for the frames above the n lowest
CloseAbove(hs, fs, n) ==
    [h \in 1..Len(hs) |->
        IF \E j \in (n + 1)..Len(fs) : fs[j] = h
        THEN [hs[h] EXCEPT !.closed = @ + 1]
        ELSE hs[h]]

\* BinWhere that numbers lines from 0
BinWhere_zero(ns, g, line) ==
    Where(ns[Len(ns)], g.next, line)

\* Where(self._filenames[-1], i + 1, line)
BinWhere(ns, g, line) ==
    Where(ns[Len(ns)], g.next + 1, line)

\* the frames one call of _pop_fileinfo popped, each with the number of the
\* pull that made the call (one more than the lines pulled, at the end)
PoppedAt(ps, n) ==
    [k \in 1..Len(ps) |-> [frame |-> ps[k].frame, diags |-> ps[k].diags, at |-> n]]

\* One next() on the FileReader.  BinFileReader.__iter__ closes and pops
\* the exhausted frames on top (k of them) and either yields the next line
\* of the frame below, which then runs through the four readers above it,
\* or finds no frame left, and FileformatReader finalizes its frames.
Pull ==
    /\ pc = "idle"
    /\ op' = "next"
    /\ \E k \in 0..Len(generators) :
          LET n  == Len(generators) - k
              fs == SubSeq(files, 1, n)
              gs == SubSeq(generators, 1, n)
              ns == SubSeq(filenames, 1, n)
          IN  /\ handles' = CloseAbove(handles, files, n)
              /\ filenames' = ns
              /\ IF n = 0
                 THEN LET fin == _pop_fileinfo(fileinfo, NoName)
                      IN  /\ files' = fs
                          /\ generators' = gs
                          /\ fileinfo' = fin.fileinfo
                          /\ diags' = diags \o fin.diags
                          /\ finalized' = finalized \o
                                PoppedAt(fin.popped, Len(pulled) + 1)
                          /\ pc' = "done"
                          /\ err' = "None"
                          /\ UNCHANGED <<is_dos, pulled, cur>>
                 ELSE /\ ~gs[n].eof
                      /\ Len(pulled) < MaxPulls
                      /\ \E line \in PipeLines :
                            LET where == BinWhere(ns, gs[n], line)
                                e == EncodingReader(where, line)
                                c == NoCtrlReader(e.where, e.data)
                                f == FileformatReader(fileinfo, is_dos, c.where, c.data)
                                a == AsteriskCommentReader(f.where, f.data)
                            IN  /\ files' = fs
                                /\ generators' =
                                      [gs EXCEPT ![n] = [next |-> @.next + 1,
                                                         eof  |-> ~EndsWithLF(line)]]
                                /\ pulled' = Append(pulled,
                                      [h |-> fs[n], where |-> where,
                                       emitted |-> IF e.raised THEN e.diags
                                                   ELSE e.diags \o c.diags
                                                        \o f.diags \o a.diags,
                                       rec |-> IF e.raised THEN NoRecord
                                               ELSE [where |-> a.where,
                                                     data |-> a.data,
                                                     comment |-> a.comment]])
                                /\ IF e.raised
                                   THEN /\ pc' = "raised"
                                        /\ err' = "UnicodeDecodeError"
                                        /\ diags' = diags \o e.diags
                                        /\ UNCHANGED <<fileinfo, is_dos, finalized, cur>>
                                   ELSE /\ pc' = "idle"
                                        /\ err' = "None"
                                        /\ diags' = diags \o e.diags \o c.diags
                                                          \o f.diags \o a.diags
                                        /\ fileinfo' = f.fileinfo
                                        /\ is_dos' = f.is_dos
                                        /\ finalized' = finalized \o
                                              PoppedAt(f.popped, Len(pulled) + 1)
                                        /\ cur' = [where |-> a.where, data |-> a.data,
                                                   comment |-> a.comment]

\* The consumer stops pulling: the generators are dropped where they stand.
\* No reader has a finally clause, a close method or a context manager.
Abandon ==
    /\ pc = "idle"
    /\ pc' = "abandoned"
    /\ op' = "abandon"
    /\ UNCHANGED <<files, generators, filenames, handles, fileinfo, is_dos, err,
                   diags, pulled, finalized, cur>>

Next ==
    \/ \E filename \in Names : include(filename)
    \/ Pull
    \/ Abandon

Spec == Init /\ [][Next]_vars

----------------------------------------------------------------------------
(* One line through the four readers, reader by reader: the line           *)
(* specification.  The source "a" holds one line, drawn from LineInputs;   *)
(* pc names the reader that handled it last ("bin": BinFileReader yielded  *)
(* it, "enc", "ctrl", "fmt", "split"; "raised": an exception left the      *)
(* generators).                                                            *)

\* bytes that exercise the decoder: 'a', tab, two C0 controls, DEL, the
\* two bytes of U+00E9, 0x80 (cp1252 euro sign), 0x81 (unassigned in
\* cp1252), 0xFF (never valid in UTF-8)
ByteAlphabet ==
    {97, TAB, 1, 27, 127, 195, 169, 128, 129, 255}

\* characters that exercise the splitter
TextAlphabet ==
    {97, SPACE, TAB, SEMI, BACKSLASH}

\* foo\; bar; baz
Example ==
    <<102, 111, 111, BACKSLASH, SEMI, SPACE, 98, 97, 114, SEMI, SPACE, 98, 97, 122>>

\* the contents of a line, before its terminator
LineBodies ==
    SeqsUpTo(ByteAlphabet, MaxBytes) \cup SeqsUpTo(TextAlphabet, MaxText)
        \cup {<<b>> : b \in (0..255) \ {LF}} \cup {Example}

\* a line of a file: a body and '\r\n', '\n' or no terminator (never empty)
LineInputs ==
    {body \o t : body \in LineBodies, t \in {<<CR, LF>>, <<LF>>, <<>>}} \ {<<>>}

InitLine ==
    /\ files = <<>>
    /\ generators = <<>>
    /\ filenames = <<>>
    /\ handles = <<>>
    /\ fileinfo = <<>>
    /\ is_dos = "None"
    /\ pc = "bin"
    /\ op = "next"
    /\ err = "None"
    /\ diags = <<>>
    /\ pulled = <<>>
    /\ finalized = <<>>
    /\ \E line \in LineInputs :
          cur = [where |-> Where("a", 1, line), data |-> line, comment |-> <<>>]

EncodingStep ==
    /\ pc = "bin"
    /\ LET e == EncodingReader(cur.where, cur.data)
       IN  /\ pc' = IF e.raised THEN "raised" ELSE "enc"
           /\ err' = IF e.raised THEN "UnicodeDecodeError" ELSE "None"
           /\ diags' = diags \o e.diags
           /\ cur' = [cur EXCEPT !.where = e.where, !.data = e.data]
    /\ UNCHANGED <<files, generators, filenames, handles, fileinfo, is_dos, op,
                   pulled, finalized>>

NoCtrlStep ==
    /\ pc = "enc"
    /\ LET c == NoCtrlReader(cur.where, cur.data)
       IN  /\ pc' = "ctrl"
           /\ diags' = diags \o c.diags
           /\ cur' = [cur EXCEPT !.where = c.where, !.data = c.data]
    /\ UNCHANGED <<files, generators, filenames, handles, fileinfo, is_dos, op, err,
                   pulled, finalized>>

FileformatStep ==
    /\ pc = "ctrl"
    /\ LET f == FileformatReader(fileinfo, is_dos, cur.where, cur.data)
       IN  /\ pc' = "fmt"
           /\ diags' = diags \o f.diags
           /\ fileinfo' = f.fileinfo
           /\ is_dos' = f.is_dos
           /\ finalized' = finalized \o PoppedAt(f.popped, 1)
           /\ cur' = [cur EXCEPT !.where = f.where, !.data = f.data]
    /\ UNCHANGED <<files, generators, filenames, handles, op, err, pulled>>

CommentStep ==
    /\ pc = "fmt"
    /\ LET a == AsteriskCommentReader(cur.where, cur.data)
       IN  /\ pc' = "split"
           /\ diags' = diags \o a.diags
           /\ cur' = [where |-> a.where, data |-> a.data, comment |-> a.comment]
    /\ UNCHANGED <<files, generators, filenames, handles, fileinfo, is_dos, op, err,
                   pulled, finalized>>

NextLine ==
    \/ EncodingStep
    \/ NoCtrlStep
    \/ FileformatStep
    \/ CommentStep

SpecLine == InitLine /\ [][NextLine]_vars

----------------------------------------------------------------------------
(* The cleaned output of a run, read again.  The record's code and comment *)
(* are written out as one line of a new file, encoded as UTF-8 and ended   *)
(* with '\n', and a second FileReader reads that file to its end.          *)

\* str.encode('utf-8') of one character
Utf8Char(c) ==
    IF c < 128 THEN <<c>>
    ELSE IF c < 2048 THEN <<192 + (c \div 64), 128 + (c % 64)>>
    ELSE IF c < 65536
    THEN <<224 + (c \div 4096), 128 + ((c \div 64) % 64), 128 + (c % 64)>>
    ELSE <<240 + (c \div 262144), 128 + ((c \div 4096) % 64),
           128 + ((c \div 64) % 64), 128 + (c % 64)>>

RECURSIVE Utf8Encode(_)
Utf8Encode(text) ==
    IF text = <<>> THEN <<>> ELSE Utf8Char(Head(text)) \o Utf8Encode(Tail(text))

\* FileReader(opener).include(...) and the iteration to StopIteration over
\* the one line written from the record yielded last
Rerun ==
    /\ pc = "split"
    /\ LET line  == Utf8Encode(cur.data \o cur.comment) \o <<LF>>
           where == Where("a", 1, line)
           e     == EncodingReader(where, line)
           c     == NoCtrlReader(e.where, e.data)
           f     == FileformatReader(<<>>, "None", c.where, c.data)
           a     == AsteriskCommentReader(f.where, f.data)
           fin   == _pop_fileinfo(f.fileinfo, NoName)
       IN  IF e.raised
           THEN /\ pc' = "raised"
                /\ err' = "UnicodeDecodeError"
                /\ diags' = diags \o e.diags
                /\ UNCHANGED <<fileinfo, is_dos, finalized, cur>>
           ELSE /\ pc' = "rerun"
                /\ err' = "None"
                /\ diags' = diags \o e.diags \o c.diags \o f.diags \o a.diags
                                  \o fin.diags
                /\ fileinfo' = fin.fileinfo
                /\ is_dos' = f.is_dos
                /\ finalized' = finalized \o PoppedAt(f.popped, 1)
                                          \o PoppedAt(fin.popped, 2)
                /\ cur' = [where |-> a.where, data |-> a.data, comment |-> a.comment]
    /\ UNCHANGED <<files, generators, filenames, handles, op, pulled>>

NextRerun ==
    \/ NextLine
    \/ Rerun

SpecRerun == InitLine /\ [][NextRerun]_vars

----------------------------------------------------------------------------
(* Vocabulary of the properties.                                           *)

Codes(ds) ==
    {ds[k].code : k \in 1..Len(ds)}

FinalCodes ==
    {"W_FILE_DOS_EOFCRLF", "W_FILE_UNIX_NOLF"}

FormatCodes ==
    FinalCodes \cup {"W_FILE_DOS_BARELF", "W_FILE_UNIX_CRLF"}

IsFormatDiag(d) ==
    d.code \in FormatCodes

FormatDiags(ds) ==
    SelectSeq(ds, IsFormatDiag)

BareLF(line) ==
    EndsWithLF(line) /\ ~EndsWithCRLF(line)

\* the j-th pull raised instead of yielding a record
Raised(j) ==
    j = Len(pulled) /\ pc = "raised"

\* the indices of the lines pulled from handle h, and the last of them
PulledFrom(h) ==
    {j \in 1..Len(pulled) : pulled[j].h = h}

LastFrom(h) ==
    CHOOSE j \in PulledFrom(h) : \A i \in PulledFrom(h) : i <= j

----------------------------------------------------------------------------
(* C1.  A single top-level file whose lines all end with CRLF.             *)

SingleCrlfFile ==
    /\ Len(handles) = 1
    /\ \A j \in 1..Len(pulled) : EndsWithCRLF(pulled[j].where.line)

\* C1, as claimed: a single top-level file in which every line, the last
\* one included, ends with CRLF gets no format diagnostic over the whole
\* run, finalization included.
C1_Original ==
    SingleCrlfFile => FormatDiags(diags) = <<>>

\* C1, amended: such a file gets no format diagnostic while its lines are
\* read, and when the sequence ends it gets exactly one, W_FILE_DOS_EOFCRLF
\* at the position of its last line (none when it holds no line).
C1_Amended ==
    SingleCrlfFile =>
        FormatDiags(diags) =
            IF pc = "done" /\ pulled # <<>>
            THEN <<Diag("W_FILE_DOS_EOFCRLF", pulled[Len(pulled)].where)>>
            ELSE <<>>

C1_Witness ==
    /\ SingleCrlfFile
    /\ pc = "done"
    /\ Len(pulled) >= 2
    /\ Codes(diags) = {"W_FILE_DOS_EOFCRLF"}

----------------------------------------------------------------------------
(* C2.  A parent classified Unix on its first line (handle 1) and a child  *)
(* of another name (handle 2) whose terminated lines all end with CRLF.    *)

IncludeScenario ==
    /\ Len(handles) = 2
    /\ handles[1].name # handles[2].name
    /\ pulled # <<>>
    /\ pulled[1].h = 1
    /\ BareLF(pulled[1].where.line)
    /\ \A j \in PulledFrom(2) : ~BareLF(pulled[j].where.line)

\* the j-th pull yielded a parent line after a child line
ParentAfterChild(j) ==
    /\ pulled[j].h = 1
    /\ ~Raised(j)
    /\ \E i \in 1..(j - 1) : pulled[i].h = 2

\* the child's frame was popped and finalized
ChildFinalized ==
    /\ PulledFrom(2) # {}
    /\ pc = "done" \/ \E j \in 1..Len(pulled) : ParentAfterChild(j)

IsChildFinalDiag(d) ==
    d.code \in FinalCodes /\ d.where.filename = handles[2].name

\* every parent line after the child is checked as a Unix line, and no
\* pull of a line finalizes the parent
ParentStaysUnix ==
    \A j \in 1..Len(pulled) :
        /\ ParentAfterChild(j) =>
              /\ "W_FILE_UNIX_CRLF" \in Codes(pulled[j].emitted)
                    <=> EndsWithCRLF(pulled[j].where.line)
              /\ "W_FILE_DOS_BARELF" \notin Codes(pulled[j].emitted)
        /\ \A k \in 1..Len(pulled[j].emitted) :
              pulled[j].emitted[k].code \in FinalCodes
                  => pulled[j].emitted[k].where.filename # handles[1].name

\* C2, as claimed: after the child ends the parent's lines are checked
\* under the parent's Unix convention again, and a child whose last line
\* lacks the terminator of its convention (CRLF) gets exactly one
\* finalize-time diagnostic, the child only.
C2_Original ==
    IncludeScenario =>
        /\ ParentStaysUnix
        /\ (ChildFinalized /\ ~EndsWithCRLF(pulled[LastFrom(2)].where.line))
              => Len(SelectSeq(diags, IsChildFinalDiag)) = 1

\* C2, amended: after the child ends the parent's lines are checked under
\* the parent's Unix convention again, and the child gets exactly one
\* finalize-time diagnostic (W_FILE_DOS_EOFCRLF at its last line, for the
\* child only) when its last line ends with CRLF, and none when its last
\* line has no terminator.
C2_Amended ==
    IncludeScenario =>
        /\ ParentStaysUnix
        /\ SelectSeq(diags, IsChildFinalDiag) =
              IF ChildFinalized /\ EndsWithCRLF(pulled[LastFrom(2)].where.line)
              THEN <<Diag("W_FILE_DOS_EOFCRLF", pulled[LastFrom(2)].where)>>
              ELSE <<>>

C2_Witness ==
    /\ IncludeScenario
    /\ Len(pulled) = 3
    /\ pulled[2].h = 2 /\ EndsWithCRLF(pulled[2].where.line)
    /\ ParentAfterChild(3) /\ EndsWithCRLF(pulled[3].where.line)
    /\ Codes(pulled[3].emitted) = {"W_FILE_DOS_EOFCRLF", "W_FILE_UNIX_CRLF"}

----------------------------------------------------------------------------
(* C3.  Handles and early abandonment.                                     *)

\* C3, as claimed: every handle include pushed is closed exactly once on
\* every exit path: when the sequence ran to its end and when the consumer
\* abandoned it with sources still on the stack; none is closed twice.
C3_Claim ==
    /\ \A h \in 1..Len(handles) : handles[h].closed <= 1
    /\ pc \in {"done", "abandoned"} =>
          \A h \in 1..Len(handles) : handles[h].binary => handles[h].closed = 1

----------------------------------------------------------------------------
(* C4.  The order of the lines BinFileReader yields.                       *)

StacksAligned ==
    /\ Len(files) = Len(generators)
    /\ Len(generators) = Len(filenames)

\* every line yielded carries the name of its source and the number of
\* lines that source has yielded so far, counted from 1
LinesNumbered ==
    \A j \in 1..Len(pulled) :
        /\ pulled[j].where.filename = handles[pulled[j].h].name
        /\ pulled[j].where.lineno =
              Cardinality({i \in 1..j : pulled[i].h = pulled[j].h})

\* a pull that yields a line only pops frames, closes exactly the popped
\* ones and yields from the frame then on top; a pull that ends the
\* sequence popped and closed them all
PullStep ==
    /\ Len(pulled') > Len(pulled) =>
          /\ files' # <<>>
          /\ Len(files') <= Len(files)
          /\ files' = SubSeq(files, 1, Len(files'))
          /\ pulled'[Len(pulled')].h = files'[Len(files')]
          /\ \A j \in 1..Len(files) :
                handles'[files[j]].closed = IF j > Len(files') THEN 1 ELSE 0
    /\ (pc = "idle" /\ pc' = "done") =>
          /\ files' = <<>>
          /\ \A j \in 1..Len(files) : handles'[files[j]].closed = 1

\* C4: for any interleaving of include calls and pulls the next line
\* yielded is the next line of the top-of-stack source: an included
\* source's lines come next, numbered from 1; an exhausted source is closed
\* and popped and its parent resumes at the line number after the last one
\* it yielded; the sequence ends exactly when the stack is empty.
C4_Theorem ==
    /\ [](LinesNumbered /\ (pc = "done" => files = <<>>))
    /\ [][PullStep]_vars

C4_Witness ==
    /\ Len(pulled) = 3
    /\ pulled[1].h = 1 /\ pulled[2].h = 2 /\ pulled[3].h = 1
    /\ pulled[2].where.lineno = 1
    /\ pulled[3].where.lineno = 2
    /\ handles[2].closed = 1
    /\ files = <<1>>

----------------------------------------------------------------------------
(* C5.  A failing opener.                                                  *)

\* a step in which include's opener raised changes nothing but op and err;
\* the pull after it yields from the stack as it stood, at the line number
\* that source had reached
FailedOpenStep ==
    /\ (op' = "include" /\ err' = "IOError") =>
          /\ files' = files
          /\ generators' = generators
          /\ filenames' = filenames
          /\ handles' = handles
          /\ diags' = diags
          /\ fileinfo' = fileinfo
          /\ pc' = pc
    /\ (op = "include" /\ err = "IOError" /\ Len(pulled') > Len(pulled)) =>
          /\ Len(files') <= Len(files)
          /\ pulled'[Len(pulled')].h = files[Len(files')]
          /\ pulled'[Len(pulled')].where.lineno = generators[Len(files')].next + 1

\* C5: when the opener fails the failure reaches the caller of include, no
\* frame is pushed (the three stacks are unchanged and of equal length),
\* no diagnostic is emitted, and a later pull continues from the previous
\* top-of-stack source.
C5_Theorem ==
    /\ []StacksAligned
    /\ [][FailedOpenStep]_vars

C5_Witness ==
    /\ op = "include"
    /\ err = "IOError"
    /\ Len(files) = 2
    /\ pulled # <<>>

----------------------------------------------------------------------------
(* C6, C7.  The decoder, on the line specification.                        *)

IsUtf8Bad(d) ==
    d.code = "E_FILE_UTF8_BAD"

\* the byte line in flight is not well-formed UTF-8
BadUtf8 ==
    ~Utf8Decode(cur.where.line).ok

\* C6, as claimed: for every byte line that fails UTF-8 decoding the
\* decoder emits exactly one E_FILE_UTF8_BAD at the line's position and
\* then always produces text with the fallback codepage; it never raises,
\* whatever bytes the line holds, and the pipeline goes on.
C6_Claim ==
    (pc # "bin" /\ BadUtf8) =>
        /\ pc # "raised"
        /\ err = "None"
        /\ SelectSeq(diags, IsUtf8Bad) = <<Diag("E_FILE_UTF8_BAD", cur.where)>>

\* the decoder's step on a line that is well-formed UTF-8: no diagnostic,
\* the standard decode as text (the bytes themselves for an ASCII line),
\* the position untouched; and any diagnostic it constructs is one
\* E_FILE_UTF8_BAD on a line it decodes with the fallback
DecodeStep ==
    (pc = "bin" /\ pc' # "bin") =>
        LET u == Utf8Decode(cur.data)
        IN  /\ u.ok =>
                  /\ pc' = "enc"
                  /\ diags' = diags
                  /\ cur'.data = u.text
                  /\ cur'.where = cur.where
                  /\ (\A k \in 1..Len(cur.data) : cur.data[k] < 128)
                        => cur'.data = cur.data
            /\ diags' # diags =>
                  /\ ~u.ok
                  /\ diags' = Append(diags, Diag("E_FILE_UTF8_BAD", cur.where))

\* C7: a byte line decodable as UTF-8 gets no diagnostic and comes out as
\* its standard decode at the same position; E_FILE_UTF8_BAD is emitted
\* only on lines that take the fallback path.
C7_Theorem ==
    /\ []("E_FILE_UTF8_BAD" \in Codes(diags) => BadUtf8)
    /\ [][DecodeStep]_vars

C7_Witness ==
    /\ pc = "enc"
    /\ cur.where.line = <<97, 195, 169>>
    /\ cur.data = <<97, 233>>
    /\ diags = <<>>

----------------------------------------------------------------------------
(* C8, C9.  The control-character guard, on the line specification.        *)

\* the ASCII control characters but CR, LF and TAB
AsciiControl ==
    ((0..31) \cup {127}) \ {TAB, LF, CR}

\* C8, as claimed: W_FILE_CTRL_CHAR is emitted for a line if and only if
\* the line holds an ASCII control character (0x00-0x1F or 0x7F) other
\* than carriage-return, line-feed and horizontal tab.
C8_Claim ==
    pc = "ctrl" =>
        ("W_FILE_CTRL_CHAR" \in Codes(diags)
            <=> CharSet(cur.data) \cap AsciiControl # {})

\* C9: the guard emits at most one W_FILE_CTRL_CHAR for a line, however
\* many illegal characters it holds, and yields the position and the text
\* unchanged whether or not it warned.
C9_Theorem ==
    [][(pc = "enc" /\ pc' = "ctrl") =>
          /\ cur' = cur
          /\ \/ diags' = diags
             \/ diags' = Append(diags, Diag("W_FILE_CTRL_CHAR", cur.where))]_vars

C9_Witness ==
    /\ pc = "ctrl"
    /\ cur.data = <<1, 27, 1>>
    /\ diags = <<Diag("W_FILE_CTRL_CHAR", cur.where)>>

----------------------------------------------------------------------------
(* C10.  The splitter's scan, on the line specification.                   *)

\* s[p] is a ';' that no backslash precedes
Unescaped(s, p) ==
    s[p] = SEMI /\ (p = 1 \/ s[p - 1] # BACKSLASH)

\* the position of the first such ';', Len(s) + 1 when there is none
FirstUnescaped(s) ==
    IF \E p \in 1..Len(s) : Unescaped(s, p)
    THEN CHOOSE p \in 1..Len(s) :
            Unescaped(s, p) /\ \A q \in 1..(p - 1) : ~Unescaped(s, q)
    ELSE Len(s) + 1

\* s without the backslashes that stand directly before a ';'
RECURSIVE DropEscapes(_)
DropEscapes(s) ==
    IF s = <<>> THEN <<>>
    ELSE IF Len(s) >= 2 /\ s[1] = BACKSLASH /\ s[2] = SEMI
    THEN DropEscapes(Tail(s))
    ELSE <<s[1]>> \o DropEscapes(Tail(s))

\* the number of spaces and tabs s ends with
TrailingWsh(s) ==
    CHOOSE n \in 0..Len(s) :
        /\ \A k \in (Len(s) - n + 1)..Len(s) : IsWsh(s[k])
        /\ n = Len(s) \/ ~IsWsh(s[Len(s) - n])

\* the code and the comment the scan gives for a text without trailing
\* space or tab: the unescaped text before the first unescaped ';', and
\* the rest
ScanCode(s) ==
    DropEscapes(SubSeq(s, 1, FirstUnescaped(s) - 1))

ScanComment(s) ==
    SubSeq(s, FirstUnescaped(s), Len(s))

\* the text the scan sees: the line without its trailing spaces and tabs
Stripped(t) ==
    SubSeq(t, 1, Len(t) - TrailingWsh(t))

\* C10, as claimed: every ';' preceded by a backslash becomes, with its
\* backslash, one literal ';' in the code; the first ';' not preceded by a
\* backslash starts the comment, which runs to the end of the line; with
\* no such ';' the comment is empty.  'foo\; bar; baz' gives the code
\* 'foo; bar' and the comment '; baz'.
C10_Original ==
    [][(pc = "fmt" /\ pc' = "split") =>
          LET s == Stripped(cur.data)
          IN  /\ cur'.data = ScanCode(s)
              /\ cur'.comment = ScanComment(s)]_vars

\* C10, amended: as claimed, but the spaces and tabs that end the code so
\* found are taken from the code and put in front of the comment: the
\* comment is that run of spaces and tabs followed by the text from the
\* first unescaped ';' to the end of the line.
C10_Amended ==
    [][(pc = "fmt" /\ pc' = "split") =>
          LET s == Stripped(cur.data)
              c == ScanCode(s)
              n == TrailingWsh(c)
          IN  /\ cur'.data = SubSeq(c, 1, Len(c) - n)
              /\ cur'.comment = SubSeq(c, Len(c) - n + 1, Len(c)) \o ScanComment(s)
              /\ FirstUnescaped(s) > Len(s) => cur'.comment = <<>>
              /\ cur.data = Example =>
                    /\ cur'.data = <<102, 111, 111, SEMI, SPACE, 98, 97, 114>>
                    /\ cur'.comment = <<SEMI, SPACE, 98, 97, 122>>]_vars

C10_Witness ==
    /\ pc = "split"
    /\ cur.where.line = Example
    /\ cur.data = <<102, 111, 111, SEMI, SPACE, 98, 97, 114>>
    /\ cur.comment = <<SEMI, SPACE, 98, 97, 122>>

----------------------------------------------------------------------------
(* Reading the cleaned output again.                                       *)

\* the splitter yields the record of the line
SplitStep ==
    pc = "fmt" /\ pc' = "split"

\* the second run has read the line written from the record of the first
RerunStep ==
    pc = "split" /\ pc' = "rerun"

\* a backslash stands directly before a ';' ahead of the first unescaped
\* ';' of s: the scan replaces the two by a literal ';' in the code
EscapedInCode(s) ==
    \E p \in 1..(FirstUnescaped(s) - 2) : s[p] = BACKSLASH /\ s[p + 1] = SEMI

EndsWithCR(s) ==
    s # <<>> /\ s[Len(s)] = CR

\* C11, as claimed: the code and the comment of a record, written out and
\* run through the pipeline again, give the identical code and comment and
\* no diagnostic, for every line, lines with escaped delimiters included.
C11_Original ==
    [][RerunStep =>
          /\ cur'.data = cur.data
          /\ cur'.comment = cur.comment
          /\ diags' = diags]_vars

\* C11, amended: the code holds a ';' exactly when the line had an escaped
\* delimiter ahead of its first unescaped ';'.  The second run gives the
\* identical code and comment exactly when the code holds no such ';' and
\* the cleaned text does not end with a carriage return, and it gives no
\* diagnostic exactly when, besides not ending with a carriage return, the
\* cleaned text holds no forbidden control character.
C11_Amended ==
    [][/\ SplitStep =>
             (Contains(cur'.data, SEMI) <=> EscapedInCode(Stripped(cur.data)))
       /\ RerunStep =>
             LET text == cur.data \o cur.comment
             IN  /\ (cur'.data = cur.data /\ cur'.comment = cur.comment)
                       <=> (~Contains(cur.data, SEMI) /\ ~EndsWithCR(text))
                 /\ diags' = diags
                       <=> (~EndsWithCR(text) /\ CharSet(text) \cap illegal = {})]_vars

\* 'a ;' read again: the same code 'a' and comment ' ;', no diagnostic
C11_Witness ==
    /\ pc = "rerun"
    /\ cur.where.line = <<97, SPACE, SEMI, LF>>
    /\ cur.data = <<97>>
    /\ cur.comment = <<SPACE, SEMI>>
    /\ diags = <<>>

----------------------------------------------------------------------------
(* Code and comment put together again.                                    *)

\* a backslash stands directly before a ';' somewhere in s
HasEscapedDelimiter(s) ==
    \E p \in 1..(Len(s) - 1) : s[p] = BACKSLASH /\ s[p + 1] = SEMI

\* C12: for every line that does not end with a space or tab and in which
\* no backslash stands directly before a ';', the code followed by the
\* comment is the text of the line after its terminator was removed,
\* whether the line holds no backslash at all or backslashes that do not
\* precede a ';'.
C12_Theorem ==
    [][SplitStep =>
          ((TrailingWsh(cur.data) = 0 /\ ~HasEscapedDelimiter(cur.data))
              => cur'.data \o cur'.comment = cur.data)]_vars

\* '\ ;a' is split into the code '\' and the comment ' ;a'
C12_Witness ==
    /\ pc = "split"
    /\ cur.where.line = <<BACKSLASH, SPACE, SEMI, 97>>
    /\ cur.data = <<BACKSLASH>>
    /\ cur.comment = <<SPACE, SEMI, 97>>

----------------------------------------------------------------------------
(* The position a record carries.                                          *)

\* the pulls that yielded a record
Yielded ==
    {j \in 1..Len(pulled) : ~Raised(j)}

\* C13, as claimed: every record's position names the source and the
\* 1-based number of the physical line its text came from, for every line
\* of every source, the first line of a parent yielded after a return
\* from an include among them; the line numbers of the successive records
\* of one open source strictly increase.
C13_Claim ==
    \A j \in Yielded :
        /\ pulled[j].rec.where.filename = pulled[j].where.filename
        /\ pulled[j].rec.where.lineno = pulled[j].where.lineno
        /\ \A i \in Yielded :
              (i < j /\ pulled[i].h = pulled[j].h)
                 => pulled[i].rec.where.lineno < pulled[j].rec.where.lineno

----------------------------------------------------------------------------
(* Finalizing the frames.                                                  *)

\* the sources named n that yielded at least one line
SourcesNamed(n) ==
    {h \in 1..Len(handles) : handles[h].name = n /\ PulledFrom(h) # {}}

\* the frames named n finalized so far
FinalizedNamed(n) ==
    {k \in 1..Len(finalized) : finalized[k].frame.fn = n}

\* C14, as claimed: when the sequence has been consumed to its end, every
\* source that yielded at least one line has had its frame finalized
\* exactly once, on a return to an ancestor or at the end: the frame stack
\* is empty and the finalized frames are, name by name, as many as the
\* sources that yielded a line, none finalized twice and none left out.
C14_Claim ==
    pc = "done" =>
        /\ fileinfo = <<>>
        /\ \A n \in Names :
              Cardinality(FinalizedNamed(n)) = Cardinality(SourcesNamed(n))

----------------------------------------------------------------------------
(* The frame stack and the Source Stack.                                   *)

\* the source names on the frame stack, bottom to top
FrameNames ==
    [k \in 1..Len(fileinfo) |-> fileinfo[k].fn]

\* a line has just been processed and its record yielded
LineProcessed ==
    op = "next" /\ pc = "idle"

\* C16, as claimed: after each line is processed by the line-ending
\* tracker the source names on its frame stack, bottom to top, are the
\* names of the sources open on the Source Stack, in the same order, for
\* every sequence of include calls and pulls.
C16_Claim ==
    LineProcessed => FrameNames = filenames

----------------------------------------------------------------------------
(* Trailing whitespace.                                                    *)

\* the diagnostics the step added
Added ==
    SubSeq(diags', Len(diags) + 1, Len(diags'))

\* C15: for every line the splitter emits W_WSH_EOL exactly once, at the
\* line's position, when its text (after the terminator was removed) ends
\* with spaces or tabs, and not at all otherwise; whitespace moved from
\* the end of the code into the comment adds no second one.  For a line
\* without ';' that ends in spaces or tabs the code is the line without
\* them and the comment is empty.
C15_Theorem ==
    [][SplitStep =>
          /\ Len(diags) <= Len(diags')
          /\ SubSeq(diags', 1, Len(diags)) = diags
          /\ Added = IF TrailingWsh(cur.data) > 0
                     THEN <<Diag("W_WSH_EOL", cur.where)>> ELSE <<>>
          /\ (TrailingWsh(cur.data) > 0 /\ ~Contains(cur.data, SEMI)) =>
                /\ cur'.data = Stripped(cur.data)
                /\ cur'.comment = <<>>]_vars

\* 'a ; ': one W_WSH_EOL for the line's end, the space before the ';'
\* moved into the comment
C15_Witness ==
    /\ pc = "split"
    /\ cur.where.line = <<97, SPACE, SEMI, SPACE>>
    /\ cur.data = <<97>>
    /\ cur.comment = <<SPACE, SEMI>>
    /\ diags = <<Diag("W_WSH_EOL", cur.where)>>

----------------------------------------------------------------------------
(* The convention of a source and the per-line diagnostics.                *)

PerLineCodes ==
    {"W_FILE_DOS_BARELF", "W_FILE_UNIX_CRLF"}

IsPerLineDiag(d) ==
    d.code \in PerLineCodes

\* the first line pulled from handle h
FirstFrom(h) ==
    CHOOSE j \in PulledFrom(h) : \A i \in PulledFrom(h) : j <= i

\* the convention the first line of handle h decides: DOS when it ends
\* with CRLF or has no terminator
SourceIsDos(h) ==
    LET line == pulled[FirstFrom(h)].where.line
    IN  EndsWithCRLF(line) \/ ~EndsWithLF(line)

\* the per-line format diagnostic codes the j-th pull emitted
PerLineEmitted(j) ==
    LET ds == SelectSeq(pulled[j].emitted, IsPerLineDiag)
    IN  [k \in 1..Len(ds) |-> ds[k].code]

\* C17, as claimed: the convention of a source is decided once, on the
\* first line seen from it (DOS if that line ends with CRLF or has no
\* terminator, Unix if it ends with a bare LF), and does not change while
\* its frame is on the stack; every line of the source is checked against
\* it: W_FILE_DOS_BARELF exactly when the source is DOS and the line ends
\* with a bare LF, W_FILE_UNIX_CRLF exactly when the source is Unix and
\* the line ends with CRLF, no per-line format diagnostic otherwise.
C17_Claim ==
    \A j \in Yielded :
        LET line == pulled[j].where.line
            dos  == SourceIsDos(pulled[j].h)
        IN  PerLineEmitted(j) =
               IF dos /\ BareLF(line) THEN <<"W_FILE_DOS_BARELF">>
               ELSE IF ~dos /\ EndsWithCRLF(line) THEN <<"W_FILE_UNIX_CRLF">>
               ELSE <<>>

----------------------------------------------------------------------------
(* What a popped frame emits, and what a return pops.                      *)

\* the last line pulled from a source named n before pull number at
LastSeen(n, at) ==
    LET js == {j \in 1..Len(pulled) : j < at /\ pulled[j].where.filename = n}
    IN  CHOOSE j \in js : \A i \in js : i <= j

\* the k-th popped frame emitted what the claim says, where it says
PoppedAsClaimed(k) ==
    LET fr   == finalized[k].frame
        last == pulled[LastSeen(fr.fn, finalized[k].at)].where
        lf   == EndsWithLF(last.line)
    IN  finalized[k].diags =
           IF fr.is_dos = "True" /\ lf
           THEN <<Diag("W_FILE_DOS_EOFCRLF", last)>>
           ELSE IF fr.is_dos # "True" /\ ~lf
           THEN <<Diag("W_FILE_UNIX_NOLF", last)>>
           ELSE <<>>

\* a line arrives whose source name is on the frame stack, at index m:
\* exactly the frames above m are popped, top first, the frames below m
\* stay as they are and frame m stays in place
ReturnStep ==
    (Len(pulled') > Len(pulled) /\ pc' = "idle") =>
        LET n == pulled'[Len(pulled')].where.filename
        IN  \A m \in 1..Len(fileinfo) :
               fileinfo[m].fn = n =>
                  /\ Len(fileinfo') = m
                  /\ fileinfo'[m].fn = n
                  /\ SubSeq(fileinfo', 1, m - 1) = SubSeq(fileinfo, 1, m - 1)
                  /\ Len(finalized') = Len(finalized) + (Len(fileinfo) - m)
                  /\ \A k \in 1..(Len(fileinfo) - m) :
                        finalized'[Len(finalized) + k].frame
                           = fileinfo[Len(fileinfo) + 1 - k]

\* C18, as claimed: a popped frame emits at most one diagnostic, at the
\* position of the last line seen from its source: W_FILE_DOS_EOFCRLF
\* exactly when the source is DOS and that line had a terminator,
\* W_FILE_UNIX_NOLF exactly when it is Unix and that line had none, and
\* nothing in the other two cases; a return from an include pops exactly
\* the frames above the matching ancestor frame and leaves that frame and
\* the frames below it in place.
C18_Claim ==
    /\ [](\A k \in 1..Len(finalized) : PoppedAsClaimed(k))
    /\ [][ReturnStep]_vars

----------------------------------------------------------------------------
(* The shortcut and the lookback path.                                     *)

\* C19: for every line that holds no backslash the record the splitter
\* yields, which it takes from the shortcut simple_comment_split, is the
\* pair the lookback loop followed by the move of trailing whitespace
\* gives for that line.
C19_Theorem ==
    [][(SplitStep /\ ~Contains(cur.data, BACKSLASH)) =>
          LET general == lookback_split(RStrip(cur.data))
          IN  /\ cur'.data = general.data
              /\ cur'.comment = general.comment]_vars

\* 'a ;a', without a backslash: the code 'a' and the comment ' ;a'
C19_Witness ==
    /\ pc = "split"
    /\ cur.where.line = <<97, SPACE, SEMI, 97>>
    /\ cur.data = <<97>>
    /\ cur.comment = <<SPACE, SEMI, 97>>
    /\ lookback_split(<<97, SPACE, SEMI, 97>>) =
          [data |-> <<97>>, comment |-> <<SPACE, SEMI, 97>>]

----------------------------------------------------------------------------
(* The shape of a record.                                                  *)

\* zero or more spaces and tabs, then a ';', then anything
StartsComment(s) ==
    \E p \in 1..Len(s) : s[p] = SEMI /\ \A q \in 1..(p - 1) : IsWsh(s[q])

\* C20: in every record the code does not end with a space or tab, and the
\* comment is empty or is zero or more spaces and tabs followed by ';' and
\* the rest of the line: never whitespace alone, never starting with a
\* character that is neither a space, a tab nor ';'.
C20_Theorem ==
    pc = "split" =>
        /\ (cur.data = <<>> \/ ~IsWsh(cur.data[Len(cur.data)]))
        /\ (cur.comment = <<>> \/ StartsComment(cur.comment))

\* '\; ;': the escaped ';' stays in the code, the space after it goes to
\* the comment
C20_Witness ==
    /\ pc = "split"
    /\ cur.where.line = <<BACKSLASH, SEMI, SPACE, SEMI>>
    /\ cur.data = <<SEMI>>
    /\ cur.comment = <<SPACE, SEMI>>

====
